---- MODULE Spec2Model ----
(***************************************************************************)
(* Model of the MELCloud per-device polling core                           *)
(* (custom_components/melcloud/coordinator.py): fleet setup                *)
(* (mel_devices_setup), the per-device MelCloudDeviceUpdateCoordinator     *)
(* (_async_update_data, async_set) and the refresh machinery the           *)
(* coordinator is configured with in __init__ (update_interval,            *)
(* always_update=False, Debouncer(cooldown=REQUEST_REFRESH_DELAY,          *)
(* immediate=False)).                                                      *)
(*                                                                         *)
(* Time is counted in ticks of half a second, so REQUEST_REFRESH_DELAY     *)
(* (1.5 s) is 3 ticks.  Network calls (get_devices, Device.update,         *)
(* Device.set) are suspension points: each is a start step and a           *)
(* completion step whose outcome is drawn from Outcomes.                   *)
(***************************************************************************)
EXTENDS Integers, Sequences, FiniteSets, TLC

\* ------------------------------------------------------------------ bounds
NumDevices == 2
MaxInFlight == 2
MaxSets == 1
MaxSubscribed == 1

\* --------------------------------------------------------- program constants
REQUEST_REFRESH_DELAY == 3
DEFAULT_UPDATE_INTERVAL == 2

\* ------------------------------------------------------------ value domains
Devices == 1..NumDevices
Categories == <<"ata", "atw">>
NoTimer == -1

\* Outcomes of one call on the vendor client: success, an HTTP status raised
\* as ClientResponseError, a ClientConnectionError, or a plain TimeoutError.
Outcomes == {"ok", "h401", "h403", "h429", "h500", "conn", "timeout"}
AuthOutcomes == {"h401", "h403"}
HttpOutcomes == {"h401", "h403", "h429", "h500"}

Kinds == {"first", "scheduled", "debounced"}

\* The device lists get_devices can return: every device under one category,
\* or split over the two.
FleetOf(split) ==
  [k \in 1..Len(Categories) |->
     SelectSeq([i \in 1..NumDevices |-> i],
               LAMBDA d : IF split THEN (IF d = 1 THEN k = 1 ELSE k = 2)
                                   ELSE k = 1)]
Fleets == {FleetOf(TRUE), FleetOf(FALSE)}

VARIABLES
  pc,                 \* position of mel_devices_setup
  all_devices,        \* get_devices' result: per category index, the devices
  ci, di,             \* loop positions: category index, device index
  coordinators,       \* the dict being built: category -> sequence of devices
  result,             \* what mel_devices_setup returned or raised
  device_available,   \* coordinator.device_available
  last_state_hash,    \* coordinator._last_state_hash (0 is None)
  data,               \* coordinator.data: "None" or "mel_device"
  last_update_success,\* coordinator.last_update_success
  listeners,          \* whether an entity is subscribed to the coordinator
  unsub_refresh,      \* 0: no interval timer; else the interval it is armed with
  deb,                \* the request-refresh Debouncer: timer, flag, lock
  inflight,           \* per kind, the refreshes awaiting Device.update()
  setting,            \* async_set calls awaiting Device.set()
  device_state,       \* Device._state as last fetched (0 is None)
  remote,             \* the device state held by the cloud
  since_request,      \* ticks since the last request_refresh (capped)
  ev                  \* what the last step's completed call reported

vars == <<pc, all_devices, ci, di, coordinators, result, device_available,
          last_state_hash, data, last_update_success, listeners, unsub_refresh,
          deb, inflight, setting, device_state, remote, since_request, ev>>

setupVars == <<pc, all_devices, ci, di, coordinators, result>>
coordVars == <<device_available, last_state_hash, data, last_update_success>>
clientVars == <<device_state, remote>>

NoEv == [op |-> "none", c |-> 0, kind |-> "none", res |-> "none",
         raised |-> "none", out |-> "none", notified |-> FALSE,
         requested |-> FALSE, changed |-> FALSE]

\* What mel_devices_setup has returned or raised so far.
NoResult == [kind |-> "none", exc |-> "none", msg |-> "none"]
Returned == [kind |-> "registry", exc |-> "none", msg |-> "none"]
Raised(exc, msg) == [kind |-> "raised", exc |-> exc, msg |-> msg]

IdleDeb == [timer |-> NoTimer, execute_at_end |-> FALSE, lock |-> FALSE]

NoneInFlight == [k \in Kinds |-> 0]

InFlightCount(c) ==
  inflight[c]["first"] + inflight[c]["scheduled"] + inflight[c]["debounced"]

\* hashlib.md5(json.dumps(state)).hexdigest()[:8]: a digest of the state;
\* digests of the states of the model are distinct and are never a state.
Hash(s) == 100 + ((s * 7) % 10)

Init ==
  /\ pc = "discover"
  /\ all_devices = <<>>
  /\ ci = 1
  /\ di = 1
  /\ coordinators = <<>>
  /\ result = NoResult
  /\ device_available = [c \in Devices |-> TRUE]
  /\ last_state_hash = [c \in Devices |-> 0]
  /\ data = [c \in Devices |-> "None"]
  /\ last_update_success = [c \in Devices |-> TRUE]
  /\ listeners = [c \in Devices |-> FALSE]
  /\ unsub_refresh = [c \in Devices |-> 0]
  /\ deb = [c \in Devices |-> IdleDeb]
  /\ inflight = [c \in Devices |-> NoneInFlight]
  /\ setting = [c \in Devices |-> 0]
  /\ device_state = [c \in Devices |-> 0]
  /\ remote = [c \in Devices |-> 1]
  /\ since_request = [c \in Devices |-> REQUEST_REFRESH_DELAY]
  /\ ev = NoEv

\* ------------------------------------------------- _async_update_data (code)
\* The exception that leaves _async_update_data when Device.update() ends
\* with outcome r: 401/403 are re-raised as ConfigEntryAuthFailed, the other
\* ClientResponseError and ClientConnectionError are absorbed, and a plain
\* TimeoutError is caught by no except clause.
UpdateRaises_ConnectionPropagates(r) ==
  IF r \in AuthOutcomes THEN "ConfigEntryAuthFailed"
  ELSE IF r = "timeout" THEN "TimeoutError"
  ELSE IF r = "conn" THEN "ClientConnectionError"
  ELSE "none"

UpdateRaises_Only401(r) ==
  IF r = "h401" THEN "ConfigEntryAuthFailed"
  ELSE IF r = "timeout" THEN "TimeoutError"
  ELSE "none"

UpdateRaises(r) ==
  IF r \in AuthOutcomes THEN "ConfigEntryAuthFailed"
  ELSE IF r = "timeout" THEN "TimeoutError"
  ELSE "none"

AvailableAfterUpdate_AuthUnavailable(r, avail) ==
  IF r = "ok" THEN TRUE
  ELSE IF r \in HttpOutcomes THEN FALSE
  ELSE IF r = "conn" THEN FALSE
  ELSE avail

AvailableAfterUpdate_RateLimitIgnored(r, avail) ==
  IF r = "ok" THEN TRUE
  ELSE IF r \in AuthOutcomes \cup {"h429"} THEN avail
  ELSE IF r \in HttpOutcomes THEN FALSE
  ELSE IF r = "conn" THEN FALSE
  ELSE avail

\* device_available after _async_update_data.
AvailableAfterUpdate(r, avail) ==
  IF r = "ok" THEN TRUE
  ELSE IF r \in AuthOutcomes THEN avail
  ELSE IF r \in HttpOutcomes THEN FALSE
  ELSE IF r = "conn" THEN FALSE
  ELSE avail

HashAfterUpdate_NotStored(r, state, hash) == hash

\* _last_state_hash after _async_update_data; state is Device._state after
\* the update ("if current_state:" skips an empty state).
HashAfterUpdate(r, state, hash) ==
  IF r = "ok" /\ state # 0 THEN Hash(state) ELSE hash

\* The "changed" flag _async_update_data logs with the hash: whether the new
\* digest differs from the previous one.
Changed(r, state, hash) ==
  r = "ok" /\ state # 0 /\ Hash(state) # hash

\* "self.device_available = v" on coordinator c: an instance attribute.
SetAvailable_Shared(avail, c, v) == [d \in DOMAIN avail |-> v]

SetAvailable(avail, c, v) == [avail EXCEPT ![c] = v]

\* Device._state after Device.update(): the cloud's state on success.
StateAfterUpdate(r, state, cloud) ==
  IF r = "ok" THEN cloud ELSE state

\* ---------------------------------------------------------- async_set (code)
\* The exception that leaves async_set: only ClientConnectionError is caught.
SetRaises(r) ==
  IF r \in HttpOutcomes THEN "ClientResponseError"
  ELSE IF r = "timeout" THEN "TimeoutError"
  ELSE "none"

\* device_available after async_set.
AvailableAfterSet(r, avail) ==
  IF r = "ok" THEN TRUE
  ELSE IF r = "conn" THEN FALSE
  ELSE avail

\* Whether async_set reaches its last line, async_request_refresh().
SetRequestsRefresh(r) == SetRaises(r) = "none"

\* ------------------------------------- the Debouncer the coordinator is given
\* Debouncer(cooldown=REQUEST_REFRESH_DELAY, immediate=False).async_call():
\* a running timer is kept and only flagged; a call while the refresh it
\* guards is executing is dropped; otherwise the timer is started.
AsyncCall(d) ==
  IF d.timer # NoTimer THEN [d EXCEPT !.execute_at_end = TRUE]
  ELSE IF d.lock THEN d
  ELSE [d EXCEPT !.execute_at_end = TRUE, !.timer = REQUEST_REFRESH_DELAY]

\* Debouncer.async_cancel(), called at the start of every refresh.
AsyncCancel(d) == [d EXCEPT !.timer = NoTimer, !.execute_at_end = FALSE]

\* ------------------------------- the refresh cycle around _async_update_data
\* always_update=False: listeners are told only when the success flag flips
\* or the returned data differs from the previous data.
ALWAYS_UPDATE == FALSE

Notified(prev_success, success, prev_data, new_data, has_listeners) ==
  /\ has_listeners
  /\ ~(~success /\ ~prev_success)
  /\ (ALWAYS_UPDATE \/ success # prev_success \/ prev_data # new_data)

\* coordinator.data after the cycle: _async_update_data returns mel_device.
DataAfter(raised, d) == IF raised = "none" THEN "mel_device" ELSE d

IntervalAfter_NotRearmed(raised, has_listeners, armed) == armed

\* The interval timer after the cycle: re-armed with the fixed interval
\* unless authentication failed or nobody listens.
IntervalAfter(raised, has_listeners, armed) ==
  IF raised # "ConfigEntryAuthFailed" /\ has_listeners
  THEN DEFAULT_UPDATE_INTERVAL ELSE armed

\* What async_config_entry_first_refresh raises to mel_devices_setup.
FirstRefreshOut(raised, success) ==
  IF raised = "ConfigEntryAuthFailed" THEN "ConfigEntryAuthFailed"
  ELSE IF ~success THEN "ConfigEntryNotReady"
  ELSE "none"

\* ------------------------------------------------- mel_devices_setup (code)
DiscoverRaises_RateLimitGeneric(r) ==
  IF r \in AuthOutcomes THEN Raised("ConfigEntryAuthFailed", "none")
  ELSE Raised("UpdateFailed", "error communicating")

\* What the except clauses around get_devices raise for a failed discovery.
DiscoverRaises(r) ==
  IF r \in AuthOutcomes THEN Raised("ConfigEntryAuthFailed", "none")
  ELSE IF r = "h429" THEN Raised("UpdateFailed", "rate limit exceeded")
  ELSE Raised("UpdateFailed", "error communicating")

\* "coordinators[device_type].append(coordinator)".
AppendCoordinator_Prepends(seq, c) == <<c>> \o seq

AppendCoordinator(seq, c) == Append(seq, c)

InRegistry(c) ==
  /\ result.kind = "registry"
  /\ \E k \in DOMAIN coordinators :
       \E i \in 1..Len(coordinators[k]) : coordinators[k][i] = c

\* The start of _async_refresh for coordinator c: the interval timer and the
\* debounce timer are cancelled, then Device.update() is awaited.
RefreshStart(c, k, lock) ==
  /\ InFlightCount(c) < MaxInFlight
  /\ unsub_refresh' = [unsub_refresh EXCEPT ![c] = 0]
  /\ deb' = [deb EXCEPT ![c] = [AsyncCancel(deb[c]) EXCEPT !.lock = lock]]
  /\ inflight' = [inflight EXCEPT ![c][k] = @ + 1]

\* get_devices under asyncio.timeout(10), and the except clauses around it.
Discover(r, fleet) ==
  /\ pc = "discover"
  /\ IF r = "ok"
     THEN /\ all_devices' = fleet
          /\ pc' = "category"
          /\ result' = result
     ELSE /\ all_devices' = all_devices
          /\ pc' = "done"
          /\ result' = DiscoverRaises(r)
  /\ ev' = [NoEv EXCEPT !.op = "discover", !.res = r,
                        !.out = IF r = "ok" THEN "none"
                                ELSE DiscoverRaises(r).exc]
  /\ UNCHANGED <<ci, di, coordinators, coordVars, clientVars, listeners,
                 unsub_refresh, deb, inflight, setting, since_request>>

\* "for device_type, devices in all_devices.items(): coordinators[device_type]
\* = []", or "return coordinators" once the categories are exhausted.
StartCategory ==
  /\ pc = "category"
  /\ IF ci <= Len(all_devices)
     THEN /\ coordinators' =
               [k \in (DOMAIN coordinators) \cup {ci} |->
                  IF k = ci THEN <<>> ELSE coordinators[k]]
          /\ di' = 1
          /\ pc' = "device"
          /\ result' = result
     ELSE /\ pc' = "done"
          /\ result' = Returned
          /\ UNCHANGED <<coordinators, di>>
  /\ ev' = NoEv
  /\ UNCHANGED <<all_devices, ci, coordVars, clientVars, listeners,
                 unsub_refresh, deb, inflight, setting, since_request>>

\* "for device in devices: coordinator = MelCloudDeviceUpdateCoordinator(...)"
\* followed by the call of async_config_entry_first_refresh up to its await.
ConstructCoordinator ==
  /\ pc = "device"
  /\ IF di <= Len(all_devices[ci])
     THEN LET c == all_devices[ci][di] IN
          /\ device_available' = SetAvailable(device_available, c, TRUE)
          /\ last_state_hash' = [last_state_hash EXCEPT ![c] = 0]
          /\ RefreshStart(c, "first", FALSE)
          /\ pc' = "first_refresh"
          /\ ci' = ci
     ELSE /\ ci' = ci + 1
          /\ pc' = "category"
          /\ UNCHANGED <<device_available, last_state_hash, unsub_refresh,
                         deb, inflight>>
  /\ ev' = NoEv
  /\ UNCHANGED <<all_devices, di, coordinators, result, data,
                 last_update_success, clientVars, listeners, setting,
                 since_request>>

\* Device.update() of a refresh of kind k ends with outcome r: the rest of
\* _async_update_data, then the rest of the refresh cycle, then (first
\* refresh) the rest of the loop body of mel_devices_setup.
RefreshComplete(c, k, r) ==
  /\ inflight[c][k] > 0
  /\ LET raised == UpdateRaises(r)
         success == (raised = "none")
         new_data == DataAfter(raised, data[c])
         new_state == StateAfterUpdate(r, device_state[c], remote[c])
         out == IF k = "first" THEN FirstRefreshOut(raised, success) ELSE "none"
     IN
     /\ device_state' = [device_state EXCEPT ![c] = new_state]
     /\ device_available' =
          SetAvailable(device_available, c,
                       AvailableAfterUpdate(r, device_available[c]))
     /\ last_state_hash' =
          [last_state_hash EXCEPT ![c] = HashAfterUpdate(r, new_state, @)]
     /\ data' = [data EXCEPT ![c] = new_data]
     /\ last_update_success' = [last_update_success EXCEPT ![c] = success]
     /\ unsub_refresh' =
          [unsub_refresh EXCEPT ![c] = IntervalAfter(raised, listeners[c], @)]
     /\ inflight' = [inflight EXCEPT ![c][k] = @ - 1]
     /\ deb' = IF k = "debounced"
               THEN [deb EXCEPT ![c].lock = FALSE,
                                ![c].timer = REQUEST_REFRESH_DELAY]
               ELSE deb
     /\ IF k # "first"
        THEN UNCHANGED <<pc, di, coordinators, result>>
        ELSE IF out = "none"
        THEN /\ coordinators' =
                  [coordinators EXCEPT ![ci] = AppendCoordinator(@, c)]
             /\ di' = di + 1
             /\ pc' = "device"
             /\ result' = result
        ELSE /\ pc' = "done"
             /\ result' = Raised(out, "none")
             /\ UNCHANGED <<coordinators, di>>
     /\ ev' = [op |-> "refresh", c |-> c, kind |-> k, res |-> r,
               raised |-> raised, out |-> out,
               notified |-> Notified(last_update_success[c], success,
                                     data[c], new_data, listeners[c]),
               requested |-> FALSE,
               changed |-> Changed(r, new_state, last_state_hash[c])]
  /\ UNCHANGED <<all_devices, ci, listeners, setting, remote, since_request>>

\* An entity is added for a coordinator of the returned registry and
\* subscribes; the first listener arms the interval timer.  At most
\* MaxSubscribed coordinators are given entities.
AddListener(c) ==
  /\ InRegistry(c)
  /\ ~listeners[c]
  /\ Cardinality({d \in Devices : listeners[d]}) < MaxSubscribed
  /\ listeners' = [listeners EXCEPT ![c] = TRUE]
  /\ unsub_refresh' = [unsub_refresh EXCEPT ![c] = DEFAULT_UPDATE_INTERVAL]
  /\ ev' = NoEv
  /\ UNCHANGED <<setupVars, coordVars, clientVars, deb, inflight, setting,
                 since_request>>

\* The interval timer fires: a scheduled refresh starts.
IntervalFire(c) ==
  /\ unsub_refresh[c] # 0
  /\ RefreshStart(c, "scheduled", deb[c].lock)
  /\ ev' = NoEv
  /\ UNCHANGED <<setupVars, coordVars, clientVars, listeners, setting,
                 since_request>>

\* async_request_refresh(): one call of the debouncer.
RequestRefresh(c) ==
  /\ listeners[c]
  /\ deb' = [deb EXCEPT ![c] = AsyncCall(@)]
  /\ since_request' = [since_request EXCEPT ![c] = 0]
  /\ ev' = [NoEv EXCEPT !.op = "request_refresh", !.c = c, !.requested = TRUE]
  /\ UNCHANGED <<setupVars, coordVars, clientVars, listeners, unsub_refresh,
                 inflight, setting>>

\* The debounce timer runs out: the pending refresh (if one was requested
\* and none is executing) starts under the debouncer's lock.
DebounceTimerFire(c) ==
  /\ deb[c].timer = 0
  /\ IF deb[c].execute_at_end /\ ~deb[c].lock
     THEN RefreshStart(c, "debounced", TRUE)
     ELSE /\ deb' = [deb EXCEPT ![c] = AsyncCancel(@)]
          /\ UNCHANGED <<unsub_refresh, inflight>>
  /\ ev' = NoEv
  /\ UNCHANGED <<setupVars, coordVars, clientVars, listeners, setting,
                 since_request>>

\* async_set up to its await of Device.set(properties).
SetStart(c) ==
  /\ listeners[c]
  /\ setting[c] < MaxSets
  /\ setting' = [setting EXCEPT ![c] = @ + 1]
  /\ ev' = NoEv
  /\ UNCHANGED <<setupVars, coordVars, clientVars, listeners, unsub_refresh,
                 deb, inflight, since_request>>

\* Device.set(properties) ends with outcome r (p is the state written): the
\* rest of async_set.
SetComplete(c, r, p) ==
  /\ setting[c] > 0
  /\ setting' = [setting EXCEPT ![c] = @ - 1]
  /\ remote' = [remote EXCEPT ![c] = IF r = "ok" THEN p ELSE @]
  /\ device_available' =
       SetAvailable(device_available, c,
                    AvailableAfterSet(r, device_available[c]))
  /\ IF SetRequestsRefresh(r)
     THEN /\ deb' = [deb EXCEPT ![c] = AsyncCall(@)]
          /\ since_request' = [since_request EXCEPT ![c] = 0]
     ELSE UNCHANGED <<deb, since_request>>
  /\ ev' = [op |-> "set", c |-> c, kind |-> "none", res |-> r,
            raised |-> SetRaises(r), out |-> SetRaises(r),
            notified |-> FALSE, requested |-> SetRequestsRefresh(r),
            changed |-> FALSE]
  /\ UNCHANGED <<setupVars, last_state_hash, data, last_update_success,
                 device_state, listeners, unsub_refresh, inflight>>

\* Half a second passes: running debounce timers count down; a timer that
\* has run out fires before time moves on.
Tick ==
  /\ \A c \in Devices : deb[c].timer # 0
  /\ \E c \in Devices : deb[c].timer > 0
  /\ deb' = [c \in Devices |->
               IF deb[c].timer > 0
               THEN [deb[c] EXCEPT !.timer = @ - 1] ELSE deb[c]]
  /\ since_request' =
       [c \in Devices |->
          IF since_request[c] < REQUEST_REFRESH_DELAY
          THEN since_request[c] + 1 ELSE since_request[c]]
  /\ ev' = NoEv
  /\ UNCHANGED <<setupVars, coordVars, clientVars, listeners, unsub_refresh,
                 inflight, setting>>

RemoteStates == {1, 2}

Next ==
  \/ \E r \in Outcomes, fleet \in Fleets : Discover(r, fleet)
  \/ StartCategory
  \/ ConstructCoordinator
  \/ \E c \in Devices, k \in Kinds, r \in Outcomes : RefreshComplete(c, k, r)
  \/ \E c \in Devices : AddListener(c)
  \/ \E c \in Devices : IntervalFire(c)
  \/ \E c \in Devices : RequestRefresh(c)
  \/ \E c \in Devices : DebounceTimerFire(c)
  \/ \E c \in Devices : SetStart(c)
  \/ \E c \in Devices, r \in Outcomes, p \in RemoteStates : SetComplete(c, r, p)
  \/ Tick

Spec == Init /\ [][Next]_vars

\* ====================================================================
\* Properties
\* ====================================================================

\* A refresh of coordinator c completes in this step with an outcome in rs.
RefreshDone(c, rs) ==
  ev'.op = "refresh" /\ ev'.c = c /\ ev'.res \in rs

\* The stored data of coordinator c is the same after the step.
SnapshotKept(c) ==
  /\ device_state'[c] = device_state[c]
  /\ last_state_hash'[c] = last_state_hash[c]
  /\ (ev'.kind # "first" => data'[c] = data[c])

\* C1: a debounced fetch starts no earlier than REQUEST_REFRESH_DELAY after
\* the last request_refresh() call (trailing edge, timer reset by each call).
C1_FetchTimedFromLastCall ==
  [][\A c \in Devices :
       inflight'[c]["debounced"] > inflight[c]["debounced"]
         => since_request[c] >= REQUEST_REFRESH_DELAY]_vars

\* C2: in every reachable state each coordinator has at most one
\* Device.update() in flight.
C2_AtMostOneFetchInFlight ==
  \A c \in Devices : InFlightCount(c) <= 1

\* C3: a refresh whose fetch fails with 401/403 raises ConfigEntryAuthFailed
\* and leaves device_available and the stored data as they were.
C3_AuthFailureLeavesState ==
  [][\A c \in Devices :
       RefreshDone(c, AuthOutcomes)
         => /\ ev'.raised = "ConfigEntryAuthFailed"
            /\ device_available'[c] = device_available[c]
            /\ data'[c] = data[c]
            /\ SnapshotKept(c)]_vars

C3_Witness ==
  /\ ev.op = "refresh" /\ ev.kind = "scheduled" /\ ev.res = "h403"
  /\ ev.raised = "ConfigEntryAuthFailed"
  /\ device_available[ev.c]
  /\ data[ev.c] = "mel_device"

\* C4: a poll whose fetch fails with 429 does not raise, sets
\* device_available to false and keeps the stored data.
C4_RateLimitedPoll ==
  [][\A c \in Devices :
       RefreshDone(c, {"h429"})
         => /\ ev'.raised = "none"
            /\ ev'.out = "none"
            /\ device_available'[c] = FALSE
            /\ SnapshotKept(c)]_vars

C4_Witness ==
  /\ ev.op = "refresh" /\ ev.kind = "scheduled" /\ ev.res = "h429"
  /\ ~device_available[ev.c]
  /\ device_state[ev.c] # 0
  /\ last_state_hash[ev.c] = Hash(device_state[ev.c])

\* C5: a poll whose fetch fails with a connection error or an HTTP error
\* other than 401/403 is absorbed: nothing is raised, device_available
\* becomes false and the stored data is kept.
C5_NonAuthFailureAbsorbed ==
  [][\A c \in Devices :
       RefreshDone(c, (HttpOutcomes \ AuthOutcomes) \cup {"conn"})
         => /\ ev'.raised = "none"
            /\ ev'.out = "none"
            /\ ~device_available'[c]
            /\ last_update_success'[c]
            /\ SnapshotKept(c)]_vars

C5_Witness ==
  /\ ev.op = "refresh" /\ ev.kind = "debounced" /\ ev.res = "conn"
  /\ ~device_available[ev.c]
  /\ data[ev.c] = "mel_device"
  /\ device_state[ev.c] # 0

\* C6: async_set never raises to its caller, whatever the failure of
\* Device.set.
C6_SetNeverRaises ==
  ev.op = "set" => ev.out = "none"

\* C7: every async_set call, successful or failed, ends with a
\* request_refresh() on the same coordinator.
C7_SetAlwaysRequestsRefresh ==
  ev.op = "set" => ev.requested

\* C8: after every poll that did not fail with an authentication failure,
\* the subscribers of the coordinator are notified.
C8_ListenersNotifiedAfterPoll ==
  (/\ ev.op = "refresh"
   /\ ev.kind # "first"
   /\ ev.raised # "ConfigEntryAuthFailed"
   /\ listeners[ev.c])
    => ev.notified

\* C9: when the initial refresh of a device fails with 401/403, fleet setup
\* raises ConfigEntryAuthFailed and never returns a registry, wherever the
\* device stands in the enumeration and whatever the other devices did.
C9_AuthFailureAbortsSetup ==
  /\ [][\A c \in Devices :
          (RefreshDone(c, AuthOutcomes) /\ ev'.kind = "first")
            => /\ pc' = "done"
               /\ result' = Raised("ConfigEntryAuthFailed", "none")]_vars
  /\ [][result.kind = "raised" => result' = result]_vars

C9_Witness ==
  /\ ev.op = "refresh" /\ ev.kind = "first" /\ ev.res \in AuthOutcomes
  /\ ev.c = 2
  /\ data[1] = "mel_device" /\ device_available[1]
  /\ result = Raised("ConfigEntryAuthFailed", "none")

\* C10: a device whose initial refresh fails with a non-auth failure
\* (connection error, timeout, 429 or another HTTP error) does not abort
\* fleet setup.
C10_NonAuthFailureKeepsSetup ==
  (/\ ev.op = "refresh"
   /\ ev.kind = "first"
   /\ ev.res \in Outcomes \ (AuthOutcomes \cup {"ok"}))
    => result.kind # "raised"

\* The failures of a fetch that are not authentication failures.
NonAuthFailures == Outcomes \ (AuthOutcomes \cup {"ok"})

\* C11: an initial refresh whose fetch fails with a non-auth failure surfaces
\* ConfigEntryNotReady for that device: it is not reported as completed.
C11_FailedFirstRefreshNotReady ==
  (/\ ev.op = "refresh"
   /\ ev.kind = "first"
   /\ ev.res \in NonAuthFailures)
    => (ev.out = "ConfigEntryNotReady" /\ ~InRegistry(ev.c)
        /\ \A k \in DOMAIN coordinators :
             \A i \in 1..Len(coordinators[k]) : coordinators[k][i] # ev.c)

\* C12: right after an initial refresh that completed without raising, the
\* coordinator has device_available = TRUE and non-null data.
C12_AvailableAfterFirstRefresh ==
  (/\ ev.op = "refresh"
   /\ ev.kind = "first"
   /\ ev.out = "none")
    => (device_available[ev.c] /\ data[ev.c] = "mel_device")

\* No coordinator has been constructed and no registry is returned.
NothingBuilt ==
  /\ result.kind = "raised"
  /\ coordinators = <<>>
  /\ \A c \in Devices : data[c] = "None" /\ InFlightCount(c) = 0

\* C13: a failed discovery raises one of three outcomes a caller can tell
\* apart: ConfigEntryAuthFailed for 401/403, the rate-limit UpdateFailed for
\* 429, the generic UpdateFailed for a timeout or connection error; in all
\* three no coordinator is constructed and no registry is returned.
C13_DiscoveryFailureClasses ==
  (ev.op = "discover" /\ ev.res # "ok")
    => /\ NothingBuilt
       /\ ev.res \in AuthOutcomes
            => result = Raised("ConfigEntryAuthFailed", "none")
       /\ ev.res = "h429"
            => /\ result = Raised("UpdateFailed", "rate limit exceeded")
               /\ result # DiscoverRaises("conn")
               /\ result # DiscoverRaises("h401")
       /\ ev.res \in {"timeout", "conn"}
            => /\ result = Raised("UpdateFailed", "error communicating")
               /\ result # DiscoverRaises("h401")

C13_Witness ==
  /\ ev.op = "discover" /\ ev.res = "h429"
  /\ result.exc = "UpdateFailed" /\ result.msg = "rate limit exceeded"
  /\ pc = "done"

\* C14: latest operation wins: right after a read or a write completes,
\* device_available is TRUE if it succeeded and FALSE if it failed with a
\* connection error or a rate limit (429).
C14_LatestOperationWins ==
  (ev.op \in {"refresh", "set"})
    => /\ ev.res = "ok" => device_available[ev.c]
       /\ ev.res \in {"conn", "h429"} => ~device_available[ev.c]

\* C15: a fetch that ends by timing out ends the poll as a connection-class
\* failure: nothing is raised, device_available becomes false and the stored
\* data is kept.
C15_TimedOutFetchAbsorbed ==
  [][\A c \in Devices :
       RefreshDone(c, {"timeout"})
         => /\ ev'.raised = "none"
            /\ ~device_available'[c]
            /\ SnapshotKept(c)]_vars

C17_SnapshotNeverLost ==
  /\ [][\A c \in Devices :
          /\ data[c] = "mel_device" => data'[c] = "mel_device"
          /\ device_state[c] # 0 => device_state'[c] # 0]_vars
  /\ [][\A c \in Devices :
          device_state[c] = 0 =>
            /\ inflight'[c]["scheduled"] <= inflight[c]["scheduled"]
            /\ inflight'[c]["debounced"] <= inflight[c]["debounced"]]_vars

C19_PollIdempotent ==
  [][\A c \in Devices :
       (RefreshDone(c, {"ok"}) /\ device_state[c] = remote[c])
         => /\ device_state'[c] = device_state[c]
            /\ last_state_hash'[c] = last_state_hash[c]
            /\ last_state_hash'[c] = Hash(remote[c])
            /\ ~ev'.changed
            /\ device_available'[c]
            /\ data'[c] = "mel_device"]_vars

C19_Witness ==
  /\ ev.op = "refresh" /\ ev.kind = "scheduled" /\ ev.res = "ok"
  /\ ~ev.changed
  /\ device_state[ev.c] = remote[ev.c]
  /\ last_state_hash[ev.c] = Hash(remote[ev.c])
  /\ device_available[ev.c]

\* C20: a returned registry holds exactly the discovered devices, per
\* category and in discovery order (an empty category maps to an empty
\* sequence); a coordinator is appended in the step that completes its own
\* first refresh; first refreshes run one device at a time, and once one has
\* raised ConfigEntryAuthFailed no later device is constructed or fetched.
C20_RegistryBuiltSequentially ==
  /\ [](/\ result.kind = "registry" => coordinators = all_devices
        /\ \A k \in DOMAIN coordinators : \A i \in 1..Len(coordinators[k]) :
             /\ coordinators[k][i] = all_devices[k][i]
             /\ inflight[coordinators[k][i]]["first"] = 0
             /\ data[coordinators[k][i]] = "mel_device"
        /\ Cardinality({c \in Devices : inflight[c]["first"] > 0}) <= 1
        /\ \A c \in Devices : inflight[c]["first"] <= 1
        /\ result = Raised("ConfigEntryAuthFailed", "none")
             => \A c \in Devices :
                  /\ InFlightCount(c) = 0
                  /\ (\A k \in DOMAIN coordinators :
                        \A i \in 1..Len(coordinators[k]) :
                          coordinators[k][i] # c)
                       /\ ~(ev.op = "refresh" /\ ev.c = c)
                     => data[c] = "None" /\ device_state[c] = 0)
  /\ [][\A k \in DOMAIN coordinators' :
          (k \in DOMAIN coordinators /\ coordinators'[k] # coordinators[k])
            => /\ ev'.op = "refresh" /\ ev'.kind = "first" /\ ev'.out = "none"
               /\ coordinators'[k] = Append(coordinators[k], ev'.c)]_vars
  /\ [][result.kind = "raised" => UNCHANGED <<inflight, data, device_state>>]_vars

C20_Witness ==
  /\ result.kind = "registry"
  /\ \E k \in DOMAIN coordinators : coordinators[k] = <<1, 2>>
  /\ \E k \in DOMAIN coordinators : coordinators[k] = <<>>
  /\ \A c \in Devices : data[c] = "mel_device"

C20_AuthWitness ==
  /\ result = Raised("ConfigEntryAuthFailed", "none")
  /\ ev.op = "refresh" /\ ev.kind = "first" /\ ev.c = 1
  /\ data[2] = "None"

\* ------------------------------------------------------ entity.py (code)
\* MelCloudDevice.available: the device_available flag of its coordinator.
MelCloudDevice_available(c) == device_available[c]

MelCloudEntity_available_CoordinatorOnly(c) == last_update_success[c]

\* MelCloudEntity.available: CoordinatorEntity.available (the coordinator's
\* last_update_success) and the available property of the device wrapper.
MelCloudEntity_available(c) ==
  last_update_success[c] /\ MelCloudDevice_available(c)

\* C21: an entity bound to a coordinator reports itself available only if
\* the coordinator's device_available flag is true and its last update is
\* marked successful; once a poll or a write has set device_available false
\* the entity stays unavailable until a read or a write of that coordinator
\* succeeds.
C21_EntityAvailability ==
  /\ [](\A c \in Devices :
          listeners[c] =>
            /\ MelCloudEntity_available(c)
                 => device_available[c] /\ last_update_success[c]
            /\ (ev.op \in {"refresh", "set"} /\ ev.c = c
                  /\ ev.res \in {"h429", "h500", "conn"}
                  /\ ~device_available[c])
                 => ~MelCloudEntity_available(c))
  /\ [][\A c \in Devices :
          (listeners[c] /\ ~device_available[c]
             /\ MelCloudEntity_available(c)')
            => /\ ev'.op \in {"refresh", "set"}
               /\ ev'.c = c
               /\ ev'.res = "ok"]_vars

C21_Witness ==
  /\ ev.op \in {"refresh", "set"}
  /\ ev.res = "conn"
  /\ listeners[ev.c]
  /\ ~device_available[ev.c]
  /\ last_update_success[ev.c]
  /\ ~MelCloudEntity_available(ev.c)

====
